---- MODULE Spec2Model ----
(***************************************************************************)
(* Model of metricbeat/module/elasticsearch/ccr/ccr.go: the ccr MetricSet, *)
(* its Fetch cycle and checkCCRAvailability.                               *)
(*                                                                         *)
(* Time is counted in seconds since process start.  Strings built by       *)
(* concatenation (warning messages, wrapped errors) are sequences of their *)
(* parts, so that "the message contains X" is "some part is X"; the empty  *)
(* string and the nil error are both the empty sequence.                   *)
(***************************************************************************)
EXTENDS Integers, Sequences, FiniteSets, TLC

(***************************************************************************)
(* Bounds of the model.                                                    *)
(***************************************************************************)
\* The clock stops advancing here.
MaxClock == 121
\* The poll intervals the scheduler may leave between two cycles.
ShortInterval == 60
LongInterval == 61
\* The longest time that passes between time.Since and time.Now of one cycle.
MaxLatency == 0
\* The largest number of follower-shard records of a stats payload.
MaxRecords == 1

(***************************************************************************)
(* Program constants.                                                      *)
(***************************************************************************)
ccrStatsPath == "/_ccr/stats"

\* 1*time.Minute, in seconds.
Minute == 60

\* The zero time.Time, which lastCCRLicenseMessageTimestamp holds until the
\* first warning: an instant before every instant the clock can show.
ZeroTime == -1

\* time.Since of the zero Time saturates at the largest Duration (about 292
\* years): a duration longer than any the bounded clock can measure.
maxDuration == MaxClock + Minute + 1

Instances == {"a", "b"}

Nil == <<>>

(***************************************************************************)
(* Collaborators of other packages: what they may answer.                  *)
(***************************************************************************)
\* version.V as <<major, minor, bugfix, rank>>; rank 0 is a pre-release
\* (-SNAPSHOT), rank 1 the release.
CCRStatsAPIAvailableVersion == <<6, 5, 0, 1>>

Versions == {<<6, 5, 0, 0>>, <<6, 5, 0, 1>>, <<10, 0, 0, 1>>}

NoVersion == <<0, 0, 0, 0>>

LicenseTypes == {"basic", "gold", "trial", "platinum", "enterprise"}

\* version.V.LessThan: ordered-tuple comparison.
LessThan(v, w) ==
    \/ v[1] < w[1]
    \/ v[1] = w[1] /\ v[2] < w[2]
    \/ v[1] = w[1] /\ v[2] = w[2] /\ v[3] < w[3]
    \/ v[1] = w[1] /\ v[2] = w[2] /\ v[3] = w[3] /\ v[4] < w[4]

\* elastic.IsFeatureAvailable(current, availableIn).
IsFeatureAvailable(current, availableIn) == ~LessThan(current, availableIn)

\* version.V.String.
VersionString(v) ==
    ToString(v[1]) \o "." \o ToString(v[2]) \o "." \o ToString(v[3])
        \o (IF v[4] = 0 THEN "-SNAPSHOT" ELSE "")

\* License.IsOneOf(candidates...).
IsOneOf(licenseType, candidates) == licenseType \in candidates

\* m.FullyQualifiedName(): module name "/" metricset name, as registered.
FullyQualifiedName == "elasticsearch/ccr"

\* Results of m.ShouldSkipFetch().
SkipResults == [err : BOOLEAN, v : BOOLEAN] \ {[err |-> TRUE, v |-> TRUE]}

\* Results of elasticsearch.GetInfo: the cluster's version, or an error.
InfoResults ==
    {[err |-> TRUE, v |-> NoVersion]} \cup {[err |-> FALSE, v |-> x] : x \in Versions}

\* Results of elasticsearch.GetLicense: the license type, or an error.
LicenseResults ==
    {[err |-> TRUE, v |-> ""]} \cup {[err |-> FALSE, v |-> x] : x \in LicenseTypes}

\* Results of elasticsearch.GetXPack: Features.CCR.Enabled, or an error.
XPackResults == [err : BOOLEAN, v : BOOLEAN] \ {[err |-> TRUE, v |-> TRUE]}

\* Results of m.HTTP.FetchContent(): the payload, or an error.  A payload is
\* the number of its follower-shard records, -1 when it is not of the
\* expected shape.
InvalidPayload == -1

Payloads == {InvalidPayload} \cup (0..MaxRecords)

ContentResults ==
    {[err |-> TRUE, v |-> 0]} \cup {[err |-> FALSE, v |-> x] : x \in Payloads}

\* eventsMapping(r, info, content, xpackEnabled): a payload that is not of the
\* expected shape is an error and reports nothing; otherwise one event is
\* reported per follower-shard record.
eventsMapping(info, content, xpackEnabled) ==
    IF content = InvalidPayload
    THEN [err |-> <<"failure parsing Elasticsearch CCR Stats API response">>,
          events |-> 0]
    ELSE [err |-> Nil, events |-> content]

\* The error a collaborator returns when it fails.
UpstreamError(collaborator) == <<collaborator \o ": request failed">>

\* fmt.Errorf(prefix + ": %w", err).
Errorf(prefix, err) == <<prefix \o ": ">> \o err

(***************************************************************************)
(* checkCCRAvailability                                                    *)
(***************************************************************************)
\* Mutant: a gold license is let through as well.
AllowedLicenses_WithGold == {"trial", "gold", "platinum", "enterprise"}

AllowedLicenses == {"trial", "platinum", "enterprise"}

licenseMessage(licenseType) ==
    << "the CCR feature is available with a platinum or enterprise Elasticsearch license. ",
       "You currently have a ", licenseType, " license. ",
       "Either upgrade your license or remove the ccr metricset from your Elasticsearch module configuration." >>

featureMessage == << "the CCR feature is not enabled on your Elasticsearch cluster." >>

\* Mutant: the message leaves out the version the cluster runs.
versionMessage_NoCurrent(currentElasticsearchVersion) ==
    << "the ", FullyQualifiedName, " is only supported with Elasticsearch >= ",
       VersionString(CCRStatsAPIAvailableVersion), "." >>

versionMessage(currentElasticsearchVersion) ==
    << "the ", FullyQualifiedName, " is only supported with Elasticsearch >= ",
       VersionString(CCRStatsAPIAvailableVersion), ". ",
       "You are currently running Elasticsearch ",
       VersionString(currentElasticsearchVersion), "." >>

\* Mutant: the version is compared before the feature flag is looked at.
checkCCRAvailability_VersionFirst(currentElasticsearchVersion, license, xpack) ==
    IF license.err
    THEN [message |-> Nil,
          err |-> Errorf("error determining Elasticsearch license", UpstreamError("GetLicense")),
          calls |-> <<"GetLicense">>]
    ELSE IF ~IsOneOf(license.v, AllowedLicenses)
    THEN [message |-> licenseMessage(license.v), err |-> Nil,
          calls |-> <<"GetLicense">>]
    ELSE IF xpack.err
    THEN [message |-> Nil,
          err |-> Errorf("error determining xpack features", UpstreamError("GetXPack")),
          calls |-> <<"GetLicense", "GetXPack">>]
    ELSE IF ~IsFeatureAvailable(currentElasticsearchVersion, CCRStatsAPIAvailableVersion)
    THEN [message |-> versionMessage(currentElasticsearchVersion), err |-> Nil,
          calls |-> <<"GetLicense", "GetXPack", "IsFeatureAvailable">>]
    ELSE IF ~xpack.v
    THEN [message |-> featureMessage, err |-> Nil,
          calls |-> <<"GetLicense", "GetXPack", "IsFeatureAvailable">>]
    ELSE [message |-> Nil, err |-> Nil,
          calls |-> <<"GetLicense", "GetXPack", "IsFeatureAvailable">>]

\* Mutant: the version is compared first, before the license is looked at.
checkCCRAvailability_VersionBeforeLicense(currentElasticsearchVersion, license, xpack) ==
    IF ~IsFeatureAvailable(currentElasticsearchVersion, CCRStatsAPIAvailableVersion)
    THEN [message |-> versionMessage(currentElasticsearchVersion), err |-> Nil,
          calls |-> <<"IsFeatureAvailable">>]
    ELSE IF license.err
    THEN [message |-> Nil,
          err |-> Errorf("error determining Elasticsearch license", UpstreamError("GetLicense")),
          calls |-> <<"IsFeatureAvailable", "GetLicense">>]
    ELSE IF ~IsOneOf(license.v, AllowedLicenses)
    THEN [message |-> licenseMessage(license.v), err |-> Nil,
          calls |-> <<"IsFeatureAvailable", "GetLicense">>]
    ELSE IF xpack.err
    THEN [message |-> Nil,
          err |-> Errorf("error determining xpack features", UpstreamError("GetXPack")),
          calls |-> <<"IsFeatureAvailable", "GetLicense", "GetXPack">>]
    ELSE IF ~xpack.v
    THEN [message |-> featureMessage, err |-> Nil,
          calls |-> <<"IsFeatureAvailable", "GetLicense", "GetXPack">>]
    ELSE [message |-> Nil, err |-> Nil,
          calls |-> <<"IsFeatureAvailable", "GetLicense", "GetXPack">>]

\* Mutant: license and feature flags are both retrieved before either is
\* looked at.
checkCCRAvailability_XPackEarly(currentElasticsearchVersion, license, xpack) ==
    IF license.err
    THEN [message |-> Nil,
          err |-> Errorf("error determining Elasticsearch license", UpstreamError("GetLicense")),
          calls |-> <<"GetLicense">>]
    ELSE IF xpack.err
    THEN [message |-> Nil,
          err |-> Errorf("error determining xpack features", UpstreamError("GetXPack")),
          calls |-> <<"GetLicense", "GetXPack">>]
    ELSE IF ~IsOneOf(license.v, AllowedLicenses)
    THEN [message |-> licenseMessage(license.v), err |-> Nil,
          calls |-> <<"GetLicense", "GetXPack">>]
    ELSE IF ~xpack.v
    THEN [message |-> featureMessage, err |-> Nil,
          calls |-> <<"GetLicense", "GetXPack">>]
    ELSE IF ~IsFeatureAvailable(currentElasticsearchVersion, CCRStatsAPIAvailableVersion)
    THEN [message |-> versionMessage(currentElasticsearchVersion), err |-> Nil,
          calls |-> <<"GetLicense", "GetXPack", "IsFeatureAvailable">>]
    ELSE [message |-> Nil, err |-> Nil,
          calls |-> <<"GetLicense", "GetXPack", "IsFeatureAvailable">>]

\* Mutant: a failed retrieval of the license is tried once more.
checkCCRAvailability_RetryLicense(currentElasticsearchVersion, license, xpack) ==
    IF license.err
    THEN [message |-> Nil,
          err |-> Errorf("error determining Elasticsearch license", UpstreamError("GetLicense")),
          calls |-> <<"GetLicense", "GetLicense">>]
    ELSE IF ~IsOneOf(license.v, AllowedLicenses)
    THEN [message |-> licenseMessage(license.v), err |-> Nil,
          calls |-> <<"GetLicense">>]
    ELSE IF xpack.err
    THEN [message |-> Nil,
          err |-> Errorf("error determining xpack features", UpstreamError("GetXPack")),
          calls |-> <<"GetLicense", "GetXPack">>]
    ELSE IF ~xpack.v
    THEN [message |-> featureMessage, err |-> Nil,
          calls |-> <<"GetLicense", "GetXPack">>]
    ELSE IF ~IsFeatureAvailable(currentElasticsearchVersion, CCRStatsAPIAvailableVersion)
    THEN [message |-> versionMessage(currentElasticsearchVersion), err |-> Nil,
          calls |-> <<"GetLicense", "GetXPack", "IsFeatureAvailable">>]
    ELSE [message |-> Nil, err |-> Nil,
          calls |-> <<"GetLicense", "GetXPack", "IsFeatureAvailable">>]

\* The result of checkCCRAvailability(currentElasticsearchVersion) when
\* GetLicense answers license and GetXPack answers xpack: the message, the
\* error, and the collaborators it called, in order.
checkCCRAvailability(currentElasticsearchVersion, license, xpack) ==
    IF license.err
    THEN [message |-> Nil,
          err |-> Errorf("error determining Elasticsearch license", UpstreamError("GetLicense")),
          calls |-> <<"GetLicense">>]
    ELSE IF ~IsOneOf(license.v, AllowedLicenses)
    THEN [message |-> licenseMessage(license.v), err |-> Nil,
          calls |-> <<"GetLicense">>]
    ELSE IF xpack.err
    THEN [message |-> Nil,
          err |-> Errorf("error determining xpack features", UpstreamError("GetXPack")),
          calls |-> <<"GetLicense", "GetXPack">>]
    ELSE IF ~xpack.v
    THEN [message |-> featureMessage, err |-> Nil,
          calls |-> <<"GetLicense", "GetXPack">>]
    ELSE IF ~IsFeatureAvailable(currentElasticsearchVersion, CCRStatsAPIAvailableVersion)
    THEN [message |-> versionMessage(currentElasticsearchVersion), err |-> Nil,
          calls |-> <<"GetLicense", "GetXPack", "IsFeatureAvailable">>]
    ELSE [message |-> Nil, err |-> Nil,
          calls |-> <<"GetLicense", "GetXPack", "IsFeatureAvailable">>]

(***************************************************************************)
(* Fetch                                                                   *)
(***************************************************************************)
\* Mutant: the timestamp starts at the time of New instead of the zero time,
\* so that the time since it is the time since process start.
Since_ProcessStart(t, now) == IF t = ZeroTime THEN now ELSE now - t

\* time.Since(t) read when the clock shows now.
Since(t, now) == IF t = ZeroTime THEN maxDuration ELSE now - t

\* Mutant: the throttle opens one second early (>= instead of >).
warnDue_AtLeast(timestamp, now) == Since(timestamp, now) >= Minute

\* The throttle of the warning: time.Since(last) > 1*time.Minute.
warnDue(timestamp, now) == Since(timestamp, now) > Minute

\* What one call of Fetch did: the collaborators it called in order, the
\* error it returned, the message of checkCCRAvailability, the warnings it
\* logged, the arguments it gave eventsMapping, the number of events
\* reported, the value it left in lastCCRLicenseMessageTimestamp and how
\* often it assigned it.
Returned(timestamp) ==
    [calls |-> <<>>, err |-> Nil, message |-> Nil, logged |-> <<>>,
     mapped |-> <<>>, events |-> 0, timestamp |-> timestamp, writes |-> 0]

\* Mutant: the warning is logged but the timestamp is not updated.
fetchUnavailable_NoStamp(c, now, later) ==
    IF warnDue(c.timestamp, now)
    THEN [c EXCEPT !.calls = Append(@, "Warn"), !.logged = Append(@, c.message)]
    ELSE c

\* Mutant: every unavailable cycle moves the timestamp, logged or silent.
fetchUnavailable_StampAlways(c, now, later) ==
    IF warnDue(c.timestamp, now)
    THEN [c EXCEPT !.timestamp = later, !.writes = @ + 1,
                   !.calls = Append(@, "Warn"),
                   !.logged = Append(@, c.message)]
    ELSE [c EXCEPT !.timestamp = later, !.writes = @ + 1]

\* Mutant: only the license message is throttled; the other messages are
\* logged in every cycle.
fetchUnavailable_OnlyLicenseThrottled(c, now, later) ==
    IF warnDue(c.timestamp, now) \/ c.calls[Len(c.calls)] # "GetLicense"
    THEN [c EXCEPT !.timestamp = later, !.writes = @ + 1,
                   !.calls = Append(@, "Warn"),
                   !.logged = Append(@, c.message)]
    ELSE c

\* The branch of Fetch taken when ccrUnavailableMessage is not empty: now is
\* the clock at time.Since, later the clock at time.Now.
fetchUnavailable(c, now, later) ==
    IF warnDue(c.timestamp, now)
    THEN [c EXCEPT !.timestamp = later, !.writes = @ + 1,
                   !.calls = Append(@, "Warn"),
                   !.logged = Append(@, c.message)]
    ELSE c

\* Mutant: the stats are read but never handed to eventsMapping.
fetchStats_NoMapping(c, info, content, xpackEnabled) ==
    IF content.err
    THEN [c EXCEPT !.calls = Append(@, "FetchContent"),
                   !.err = UpstreamError("FetchContent")]
    ELSE [c EXCEPT !.calls = Append(@, "FetchContent")]

\* Mutant: a failed read of the stats is taken for an empty answer.
fetchStats_IgnoreError(c, info, content, xpackEnabled) ==
    IF content.err
    THEN [c EXCEPT !.calls = Append(@, "FetchContent")]
    ELSE LET r == eventsMapping(info.v, content.v, xpackEnabled)
         IN  [c EXCEPT !.calls = @ \o <<"FetchContent", "eventsMapping">>,
                       !.mapped = Append(@, <<info.v, content.v, xpackEnabled>>),
                       !.events = r.events,
                       !.err = r.err]

\* Mutant: the error of eventsMapping is dropped.
fetchStats_DropMappingError(c, info, content, xpackEnabled) ==
    IF content.err
    THEN [c EXCEPT !.calls = Append(@, "FetchContent"),
                   !.err = UpstreamError("FetchContent")]
    ELSE LET r == eventsMapping(info.v, content.v, xpackEnabled)
         IN  [c EXCEPT !.calls = @ \o <<"FetchContent", "eventsMapping">>,
                       !.mapped = Append(@, <<info.v, content.v, xpackEnabled>>),
                       !.events = r.events]

\* Mutant: a failed read of the stats is tried once more.
fetchStats_Retry(c, info, content, xpackEnabled) ==
    IF content.err
    THEN [c EXCEPT !.calls = @ \o <<"FetchContent", "FetchContent">>,
                   !.err = UpstreamError("FetchContent")]
    ELSE LET r == eventsMapping(info.v, content.v, xpackEnabled)
         IN  [c EXCEPT !.calls = @ \o <<"FetchContent", "eventsMapping">>,
                       !.mapped = Append(@, <<info.v, content.v, xpackEnabled>>),
                       !.events = r.events,
                       !.err = r.err]

\* Mutant: a cycle that finds CCR available clears the timestamp, so that the
\* next unavailable cycle warns at once.
fetchStats_Rearm(c, info, content, xpackEnabled) ==
    IF content.err
    THEN [c EXCEPT !.calls = Append(@, "FetchContent"),
                   !.err = UpstreamError("FetchContent"),
                   !.timestamp = ZeroTime, !.writes = @ + 1]
    ELSE LET r == eventsMapping(info.v, content.v, xpackEnabled)
         IN  [c EXCEPT !.calls = @ \o <<"FetchContent", "eventsMapping">>,
                       !.mapped = Append(@, <<info.v, content.v, xpackEnabled>>),
                       !.events = r.events,
                       !.err = r.err,
                       !.timestamp = ZeroTime, !.writes = @ + 1]

\* The rest of Fetch when CCR is available: read the stats and map them.
fetchStats(c, info, content, xpackEnabled) ==
    IF content.err
    THEN [c EXCEPT !.calls = Append(@, "FetchContent"),
                   !.err = UpstreamError("FetchContent")]
    ELSE LET r == eventsMapping(info.v, content.v, xpackEnabled)
         IN  [c EXCEPT !.calls = @ \o <<"FetchContent", "eventsMapping">>,
                       !.mapped = Append(@, <<info.v, content.v, xpackEnabled>>),
                       !.events = r.events,
                       !.err = r.err]

\* Mutant: the unavailable branch does not return and goes on to the stats.
fetchNotSkipped_FallThrough(c, now, later, xpackEnabled, info, license, xpack, content) ==
    IF info.err
    THEN [c EXCEPT !.calls = Append(@, "GetInfo"), !.err = UpstreamError("GetInfo")]
    ELSE LET a  == checkCCRAvailability(info.v, license, xpack)
             c1 == [c EXCEPT !.calls = @ \o <<"GetInfo">> \o a.calls]
         IN  IF a.err # Nil
             THEN [c1 EXCEPT !.err = Errorf("error determining if CCR is available", a.err)]
             ELSE IF a.message # Nil
             THEN fetchStats(fetchUnavailable([c1 EXCEPT !.message = a.message], now, later),
                             info, content, xpackEnabled)
             ELSE fetchStats(c1, info, content, xpackEnabled)

\* Mutant: while the latest warning is less than a minute old the cluster is
\* taken to be unavailable still, and nothing is checked.
fetchNotSkipped_CachedUnavailable(c, now, later, xpackEnabled, info, license, xpack, content) ==
    IF info.err
    THEN [c EXCEPT !.calls = Append(@, "GetInfo"), !.err = UpstreamError("GetInfo")]
    ELSE IF ~warnDue(c.timestamp, now)
    THEN [c EXCEPT !.calls = Append(@, "GetInfo")]
    ELSE LET a  == checkCCRAvailability(info.v, license, xpack)
             c1 == [c EXCEPT !.calls = @ \o <<"GetInfo">> \o a.calls]
         IN  IF a.err # Nil
             THEN [c1 EXCEPT !.err = Errorf("error determining if CCR is available", a.err)]
             ELSE IF a.message # Nil
             THEN fetchUnavailable([c1 EXCEPT !.message = a.message], now, later)
             ELSE fetchStats(c1, info, content, xpackEnabled)

\* Fetch after the skip decision: cluster info, availability, then either the
\* throttled warning or the stats.  c is what the cycle did so far.
fetchNotSkipped(c, now, later, xpackEnabled, info, license, xpack, content) ==
    IF info.err
    THEN [c EXCEPT !.calls = Append(@, "GetInfo"), !.err = UpstreamError("GetInfo")]
    ELSE LET a  == checkCCRAvailability(info.v, license, xpack)
             c1 == [c EXCEPT !.calls = @ \o <<"GetInfo">> \o a.calls]
         IN  IF a.err # Nil
             THEN [c1 EXCEPT !.err = Errorf("error determining if CCR is available", a.err)]
             ELSE IF a.message # Nil
             THEN fetchUnavailable([c1 EXCEPT !.message = a.message], now, later)
             ELSE fetchStats(c1, info, content, xpackEnabled)

\* Mutant: the skip decision is asked for but not obeyed.
fetchCycle_IgnoreSkip(timestamp, now, later, xpackEnabled, shouldSkip, info, license, xpack, content) ==
    LET c == [Returned(timestamp) EXCEPT !.calls = <<"ShouldSkipFetch">>]
    IN  IF shouldSkip.err THEN [c EXCEPT !.err = UpstreamError("ShouldSkipFetch")]
        ELSE fetchNotSkipped(c, now, later, xpackEnabled, info, license, xpack, content)

\* Fetch, called when the field holds timestamp and the clock shows now (later
\* at time.Now), with the answers of its collaborators.
fetchCycle(timestamp, now, later, xpackEnabled, shouldSkip, info, license, xpack, content) ==
    LET c == [Returned(timestamp) EXCEPT !.calls = <<"ShouldSkipFetch">>]
    IN  IF shouldSkip.err THEN [c EXCEPT !.err = UpstreamError("ShouldSkipFetch")]
        ELSE IF shouldSkip.v THEN c
        ELSE fetchNotSkipped(c, now, later, xpackEnabled, info, license, xpack, content)

(***************************************************************************)
(* State.                                                                  *)
(*   clock                          the time shown by time.Now             *)
(*   XPackEnabled                   the module's xpack.enabled setting     *)
(*   lastCCRLicenseMessageTimestamp the field of each MetricSet            *)
(*   last      what the latest Fetch of each MetricSet did and was given   *)
(*   hist      history of each MetricSet: the time of its first            *)
(*             unavailable cycle, whether every cycle since then was       *)
(*             unavailable too, the times of all its warnings and the      *)
(*             check that caused the latest one                            *)
(***************************************************************************)
VARIABLES clock, XPackEnabled, lastCCRLicenseMessageTimestamp, last, hist

vars == <<clock, XPackEnabled, lastCCRLicenseMessageTimestamp, last, hist>>

\* The answer of a collaborator as the cycle saw it: none when not called.
Asked(calls, collaborator, result) ==
    IF \E k \in DOMAIN calls : calls[k] = collaborator THEN <<result>> ELSE <<>>

NoCycle ==
    [cycle |-> Returned(ZeroTime), at |-> 0, prev |-> ZeroTime, first |-> FALSE,
     after |-> "none",
     shouldSkip |-> <<>>, info |-> <<>>, license |-> <<>>, xpack |-> <<>>,
     xpackAnswer |-> <<>>, content |-> <<>>]

NoHistory ==
    [firstUnavailableAt |-> ZeroTime, streak |-> TRUE, warns |-> <<>>, warnedBy |-> ""]

\* Outcome of a cycle.
Ran(l) == l.cycle.calls # <<>>
Failed(l) == l.cycle.err # Nil
Skipped(l) == l.cycle.calls = <<"ShouldSkipFetch">> /\ l.cycle.err = Nil
Unavailable(l) == l.cycle.message # Nil
Warned(l) == l.cycle.logged # <<>>
Called(l, collaborator) == \E k \in DOMAIN l.cycle.calls : l.cycle.calls[k] = collaborator

\* The check that made the cycle unavailable: the last collaborator that
\* checkCCRAvailability called.
Reason(c) ==
    IF c.message = Nil THEN ""
    ELSE LET checks == SelectSeq(c.calls, LAMBDA n :
                          n \in {"GetLicense", "GetXPack", "IsFeatureAvailable"})
         IN  checks[Len(checks)]

\* Mutant: the timestamp is a variable of the package, shared by all MetricSets.
store_Shared(timestamps, i, value) == [j \in Instances |-> value]

\* m.lastCCRLicenseMessageTimestamp after Fetch on MetricSet i: a field of i.
store(timestamps, i, value) == [timestamps EXCEPT ![i] = value]

\* New: the MetricSet starts with the zero timestamp.
New(started) ==
    /\ clock = 0
    /\ XPackEnabled \in {f \in [Instances -> BOOLEAN] : \A i \in Instances \ started : ~f[i]}
    /\ lastCCRLicenseMessageTimestamp = [i \in Instances |-> ZeroTime]
    /\ last = [i \in Instances |-> NoCycle]
    /\ hist = [i \in Instances |-> NoHistory]

\* Time passes between two cycles.
Tick ==
    /\ \E d \in {ShortInterval, LongInterval} :
          /\ clock + d <= MaxClock
          /\ clock' = clock + d
    /\ UNCHANGED <<XPackEnabled, lastCCRLicenseMessageTimestamp, last, hist>>

\* The answers the collaborators may give in one cycle.  A collaborator that
\* the cycle does not reach has no answer to give: it stands at the first
\* member of its set of results.  GetXPack has an answer ready, whatever it
\* is, in every cycle that learns the license.
NotReached(results) == CHOOSE r \in results : r.err

Answers ==
    {a \in [shouldSkip : SkipResults, info : InfoResults, license : LicenseResults,
            xpack : XPackResults, content : ContentResults] :
        LET c == fetchCycle(ZeroTime, 0, 0, FALSE,
                            a.shouldSkip, a.info, a.license, a.xpack, a.content)
            reached(collaborator) == \E k \in DOMAIN c.calls : c.calls[k] = collaborator
        IN  /\ reached("GetInfo") \/ a.info = NotReached(InfoResults)
            /\ reached("GetLicense") \/ a.license = NotReached(LicenseResults)
            /\ \/ reached("GetXPack")
               \/ reached("GetLicense") /\ ~a.license.err
               \/ a.xpack = NotReached(XPackResults)
            /\ reached("FetchContent") \/ a.content = NotReached(ContentResults)}

\* One call of Fetch on MetricSet i, answered by one of answers.  Time passes
\* between time.Since and time.Now only in a cycle that reads both.
FetchWith(i, answers) ==
    \E a \in answers :
    \E c0 \in {fetchCycle(lastCCRLicenseMessageTimestamp[i], clock, clock,
                          XPackEnabled[i], a.shouldSkip, a.info, a.license, a.xpack,
                          a.content)} :
    \E latency \in IF c0.writes = 0 THEN {0} ELSE 0..MaxLatency :
       /\ clock + latency <= MaxClock
       /\ \E c \in {IF latency = 0 THEN c0
                    ELSE fetchCycle(lastCCRLicenseMessageTimestamp[i], clock,
                                    clock + latency, XPackEnabled[i], a.shouldSkip,
                                    a.info, a.license, a.xpack, a.content)} :
          LET h == hist[i]
              unavailable == c.message # Nil
              first == unavailable /\ h.firstUnavailableAt = ZeroTime
          IN  /\ clock' = clock + latency
              /\ lastCCRLicenseMessageTimestamp' =
                    store(lastCCRLicenseMessageTimestamp, i, c.timestamp)
              /\ last' = [last EXCEPT ![i] =
                    [cycle |-> c, at |-> clock, prev |-> lastCCRLicenseMessageTimestamp[i],
                     first |-> first,
                     after |-> IF ~Ran(last[i]) THEN "none"
                               ELSE IF Unavailable(last[i]) THEN "unavailable"
                               ELSE "other",
                     shouldSkip |-> Asked(c.calls, "ShouldSkipFetch", a.shouldSkip),
                     info |-> Asked(c.calls, "GetInfo", a.info),
                     license |-> Asked(c.calls, "GetLicense", a.license),
                     xpack |-> Asked(c.calls, "GetXPack", a.xpack),
                     xpackAnswer |-> IF a.license.err THEN <<>>
                                     ELSE Asked(c.calls, "GetLicense", a.xpack),
                     content |-> Asked(c.calls, "FetchContent", a.content)]]
              /\ hist' = [hist EXCEPT ![i] =
                    [firstUnavailableAt |-> IF first THEN clock ELSE h.firstUnavailableAt,
                     streak |-> h.streak /\ (h.firstUnavailableAt = ZeroTime \/ unavailable),
                     warns |-> IF c.logged # <<>> THEN Append(h.warns, clock + latency)
                               ELSE h.warns,
                     warnedBy |-> IF c.logged # <<>> THEN Reason(c) ELSE h.warnedBy]]
              /\ UNCHANGED XPackEnabled

\* One call of Fetch on MetricSet i.
Fetch(i) == FetchWith(i, Answers)

Init == New({"a"})

Next == Tick \/ Fetch("a")

Spec == Init /\ [][Next]_vars

\* Two MetricSets, one per monitored cluster, whose cycles interleave in any
\* order.  A cycle is skipped, or fails to get the cluster info, or finds a
\* basic license (unavailable), or a platinum license with CCR enabled and an
\* empty stats payload (available).  Module a has xpack.enabled set, module b has not.
AnswersMulti ==
    {a \in Answers :
        /\ ~a.shouldSkip.err
        /\ a.shouldSkip.v \/ a.info.err \/
              /\ a.info = [err |-> FALSE, v |-> <<10, 0, 0, 1>>]
              /\ ~a.license.err /\ a.license.v \in {"basic", "platinum"}
              /\ a.xpack = [err |-> FALSE, v |-> TRUE]
              /\ a.license.v = "basic" \/ a.content = [err |-> FALSE, v |-> 0]}

InitMulti == New(Instances) /\ XPackEnabled = [i \in Instances |-> i = "a"]

NextMulti == Tick \/ \E i \in Instances : FetchWith(i, AnswersMulti)

SpecMulti == InitMulti /\ [][NextMulti]_vars

(***************************************************************************)
(* Properties.                                                             *)
(***************************************************************************)
\* The number of warnings a MetricSet had logged before its latest cycle.
WarnsBefore(i) == Len(hist[i].warns) - (IF Warned(last[i]) THEN 1 ELSE 0)

\* C1: while every cycle since the first unavailable one was unavailable too
\* and the latest runs at most 60 seconds after that first one, exactly one
\* warning has been logged, by the first of these cycles; and the first
\* unavailable cycle that runs more than 60 seconds after that warning logs
\* the second warning.
C1_OneWarningPerMinute ==
    \A i \in Instances :
        LET l == last[i]
            h == hist[i]
        IN  /\ (Unavailable(l) /\ h.streak /\ l.at - h.firstUnavailableAt <= Minute)
                  => (Len(h.warns) = 1 /\ (Warned(l) <=> l.first))
            /\ (Unavailable(l) /\ WarnsBefore(i) = 1 /\ l.at - h.warns[1] > Minute)
                  => (Warned(l) /\ Len(h.warns) = 2)

\* An unavailable cycle exactly 60 seconds after the first one, every cycle in
\* between unavailable, stays silent.
C1_Witness ==
    LET l == last["a"]
        h == hist["a"]
    IN  /\ Unavailable(l) /\ h.streak /\ ~l.first
        /\ l.at - h.firstUnavailableAt = Minute
        /\ ~Warned(l) /\ Len(h.warns) = 1

\* C2: any two warnings of a MetricSet are more than 60 seconds apart, and a
\* cycle that runs 60 seconds or less after the latest warning logs none.
C2_Throttled ==
    \A i \in Instances :
        LET l == last[i]
            w == hist[i].warns
        IN  /\ \A j, k \in DOMAIN w : j < k => w[k] - w[j] > Minute
            /\ (Ran(l) /\ WarnsBefore(i) > 0 /\ l.at - w[WarnsBefore(i)] <= Minute)
                  => ~Warned(l)

\* A second warning, 61 seconds after the first.
C2_Witness ==
    LET w == hist["a"].warns
    IN  Len(w) = 2 /\ w[2] - w[1] = Minute + 1 /\ Warned(last["a"])

\* What the latest cycle of a MetricSet was answered.
GotLicense(l, types) == l.license # <<>> /\ ~l.license[1].err /\ l.license[1].v \in types
GotFlag(l, enabled) == l.xpack # <<>> /\ ~l.xpack[1].err /\ l.xpack[1].v = enabled
GotVersion(l) == l.info # <<>> /\ ~l.info[1].err
Contains(message, part) == \E k \in DOMAIN message : message[k] = part

\* C3: with a license other than trial, platinum and enterprise the message is
\* not empty and contains the license type, no error is returned, and the
\* cycle asks for no feature flags, compares no version and reads no stats.
C3_LicenseGate ==
    \A i \in Instances :
        LET l == last[i]
        IN  GotLicense(l, LicenseTypes \ {"trial", "platinum", "enterprise"})
               => /\ l.cycle.message # Nil
                  /\ Contains(l.cycle.message, l.license[1].v)
                  /\ l.cycle.err = Nil
                  /\ ~Called(l, "GetXPack")
                  /\ ~Called(l, "IsFeatureAvailable")
                  /\ ~Called(l, "FetchContent")

\* A cycle that found a gold license.
C3_Witness ==
    /\ GotLicense(last["a"], {"gold"})
    /\ Contains(last["a"].cycle.message, "gold")

\* C4: with an allowed license and the CCR flag off the message is the one
\* saying the feature is not enabled, and the version is not compared.
C4_FeatureGate ==
    \A i \in Instances :
        LET l == last[i]
        IN  (GotLicense(l, {"trial", "platinum", "enterprise"}) /\ GotFlag(l, FALSE))
               => /\ l.cycle.message =
                        <<"the CCR feature is not enabled on your Elasticsearch cluster.">>
                  /\ l.cycle.err = Nil
                  /\ ~Called(l, "IsFeatureAvailable")

\* The flag is off on a cluster whose version is below the minimum.
C4_Witness ==
    LET l == last["a"]
    IN  /\ GotLicense(l, {"platinum"}) /\ GotFlag(l, FALSE) /\ GotVersion(l)
        /\ LessThan(l.info[1].v, CCRStatsAPIAvailableVersion)
        /\ Unavailable(l)

\* C5: with an allowed license, the CCR flag on and a cluster version below the
\* minimum, the message is not empty and names the minimum version and the
\* version of the cluster, and no error is returned.
C5_VersionGate ==
    \A i \in Instances :
        LET l == last[i]
        IN  (/\ GotLicense(l, {"trial", "platinum", "enterprise"}) /\ GotFlag(l, TRUE)
             /\ GotVersion(l) /\ LessThan(l.info[1].v, CCRStatsAPIAvailableVersion))
               => /\ l.cycle.message # Nil
                  /\ Contains(l.cycle.message, VersionString(CCRStatsAPIAvailableVersion))
                  /\ Contains(l.cycle.message, VersionString(l.info[1].v))
                  /\ l.cycle.err = Nil

\* A pre-release of the minimum version is told about both versions.
C5_Witness ==
    LET l == last["a"]
    IN  /\ GotLicense(l, {"enterprise"}) /\ GotFlag(l, TRUE)
        /\ GotVersion(l) /\ l.info[1].v = <<6, 5, 0, 0>>
        /\ Contains(l.cycle.message, "6.5.0") /\ Contains(l.cycle.message, "6.5.0-SNAPSHOT")

\* The latest cycle called collaborator first and then, later, second.
CalledBefore(l, first, second) ==
    \E j, k \in DOMAIN l.cycle.calls :
        j < k /\ l.cycle.calls[j] = first /\ l.cycle.calls[k] = second

\* All three checks pass in the latest cycle.
AllChecksPass(l) ==
    /\ GotLicense(l, {"trial", "platinum", "enterprise"})
    /\ GotFlag(l, TRUE)
    /\ GotVersion(l) /\ ~LessThan(l.info[1].v, CCRStatsAPIAvailableVersion)

\* C6 as stated: when all three checks pass the message is empty, the stats
\* are read and then the event mapper is called, and no warning is logged.
C6_AsStated ==
    \A i \in Instances :
        LET l == last[i]
        IN  AllChecksPass(l)
               => /\ l.cycle.message = Nil
                  /\ ~Warned(l)
                  /\ CalledBefore(l, "FetchContent", "eventsMapping")

\* C6 amended: when all three checks pass the message is empty, no warning is
\* logged and the stats are read; the event mapper is called after the read
\* when the read succeeds, and not at all when it fails.
C6_ProceedsToFetch ==
    \A i \in Instances :
        LET l == last[i]
        IN  AllChecksPass(l)
               => /\ l.cycle.message = Nil
                  /\ ~Warned(l)
                  /\ Called(l, "FetchContent") /\ l.content # <<>>
                  /\ ~l.content[1].err => CalledBefore(l, "FetchContent", "eventsMapping")
                  /\ l.content[1].err => (~Called(l, "eventsMapping") /\ Failed(l))

\* All checks pass, the stats are read and mapped to an event.
C6_Witness ==
    LET l == last["a"]
    IN  /\ AllChecksPass(l) /\ l.info[1].v = <<10, 0, 0, 1>>
        /\ CalledBefore(l, "FetchContent", "eventsMapping")
        /\ l.cycle.events = 1 /\ ~Failed(l)

\* C7: an unavailable cycle returns nil, reads no stats and reports no
\* events, whether it logged the warning or not.
C7_UnavailableIsNoError ==
    \A i \in Instances :
        LET l == last[i]
        IN  Unavailable(l)
               => /\ l.cycle.err = Nil
                  /\ ~Called(l, "FetchContent")
                  /\ ~Called(l, "eventsMapping")
                  /\ l.cycle.events = 0

\* An unavailable cycle whose warning was suppressed.
C7_Witness ==
    LET l == last["a"]
    IN  Unavailable(l) /\ ~Warned(l) /\ ~Failed(l) /\ l.prev # ZeroTime

\* The collaborator whose failure the latest cycle met, if any.
FailedCalls(l) ==
    {n \in {"ShouldSkipFetch", "GetInfo", "GetLicense", "GetXPack", "FetchContent"} :
        LET r == CASE n = "ShouldSkipFetch" -> l.shouldSkip
                   [] n = "GetInfo" -> l.info
                   [] n = "GetLicense" -> l.license
                   [] n = "GetXPack" -> l.xpack
                   [] OTHER -> l.content
        IN  r # <<>> /\ r[1].err}

\* C8: when the skip decision, the cluster info, the license, the feature
\* flags or the stats read fails, Fetch returns an error, the failed call is
\* the last one of the cycle, no warning is logged, no events are reported
\* and the timestamp is left as it was.
C8_FailurePropagates ==
    \A i \in Instances :
        LET l == last[i]
        IN  \A n \in FailedCalls(l) :
               /\ l.cycle.err # Nil
               /\ l.cycle.calls[Len(l.cycle.calls)] = n
               /\ ~Warned(l)
               /\ l.cycle.events = 0 /\ l.cycle.mapped = <<>>
               /\ l.cycle.writes = 0
               /\ lastCCRLicenseMessageTimestamp[i] = l.prev

\* The feature flags cannot be read more than a minute after a warning.
C8_Witness ==
    LET l == last["a"]
    IN  /\ FailedCalls(l) = {"GetXPack"}
        /\ l.prev # ZeroTime /\ l.at - l.prev > Minute
        /\ lastCCRLicenseMessageTimestamp["a"] = l.prev

\* C9: when ShouldSkipFetch answers yes, Fetch returns nil having called
\* nothing else: no warning, no events, the timestamp as it was.
C9_SkipDoesNothing ==
    \A i \in Instances :
        LET l == last[i]
        IN  (l.shouldSkip # <<>> /\ ~l.shouldSkip[1].err /\ l.shouldSkip[1].v)
               => /\ l.cycle.err = Nil
                  /\ l.cycle.calls = <<"ShouldSkipFetch">>
                  /\ ~Warned(l)
                  /\ l.cycle.events = 0 /\ l.cycle.mapped = <<>>
                  /\ l.cycle.writes = 0
                  /\ lastCCRLicenseMessageTimestamp[i] = l.prev

\* A skipped cycle more than a minute after a warning.
C9_Witness ==
    LET l == last["a"]
    IN  /\ Skipped(l) /\ l.shouldSkip[1].v
        /\ l.prev # ZeroTime /\ l.at - l.prev > Minute

\* C10: every step leaves the timestamp of each MetricSet where it was or
\* moves it forward, never back to the zero time, and a cycle assigns it at
\* most once.
C10_TimestampAdvances ==
    [][\A i \in Instances :
          /\ lastCCRLicenseMessageTimestamp'[i] >= lastCCRLicenseMessageTimestamp[i]
          /\ lastCCRLicenseMessageTimestamp[i] # ZeroTime
                => lastCCRLicenseMessageTimestamp'[i] # ZeroTime
          /\ last'[i].cycle.writes <= 1
          /\ lastCCRLicenseMessageTimestamp'[i] # lastCCRLicenseMessageTimestamp[i]
                => last'[i].cycle.writes = 1]_vars

\* The timestamp moved forward from one warning to the next.
C10_Witness ==
    LET l == last["a"]
    IN  /\ l.prev # ZeroTime
        /\ lastCCRLicenseMessageTimestamp["a"] > l.prev
        /\ l.cycle.writes = 1

\* C11: every cycle that is not skipped and learns the cluster info asks for
\* the license; the message of a cycle whose checks return no error is the one
\* checkCCRAvailability gives for the version, license and flags of that
\* cycle, and the stats are read exactly when it is empty; a cycle right after
\* an unavailable one reads the stats when all three checks pass.
C11_RecomputedEveryCycle ==
    \A i \in Instances :
        LET l == last[i]
        IN  /\ GotVersion(l) => (Called(l, "GetLicense") /\ l.license # <<>>)
            /\ (GotVersion(l) /\ GotLicense(l, LicenseTypes)
                  /\ (l.xpack # <<>> => ~l.xpack[1].err))
                  => /\ l.cycle.message =
                          checkCCRAvailability(l.info[1].v, l.license[1],
                                               l.xpackAnswer[1]).message
                     /\ Called(l, "FetchContent") <=> l.cycle.message = Nil
            /\ (l.after = "unavailable" /\ AllChecksPass(l))
                  => (Called(l, "FetchContent") /\ ~Unavailable(l) /\ ~Warned(l))

\* Less than a minute after a warning, the cycle right after an unavailable
\* one finds all checks passing and reads the stats.
C11_Witness ==
    LET l == last["a"]
    IN  /\ l.after = "unavailable" /\ AllChecksPass(l)
        /\ l.prev # ZeroTime /\ l.at - l.prev < Minute
        /\ Called(l, "FetchContent")

\* How often the latest cycle called a collaborator.
Calls(l, collaborator) ==
    Cardinality({k \in DOMAIN l.cycle.calls : l.cycle.calls[k] = collaborator})

\* C12: a cycle reads the stats once when it is not skipped, the cluster
\* info, the license and the feature flags are retrieved and all three checks
\* pass, and never otherwise; a read of the stats comes after successful
\* retrievals of cluster info, license and feature flags in the same cycle.
C12_OneStatsReadWhenAvailable ==
    \A i \in Instances :
        LET l == last[i]
        IN  /\ Calls(l, "FetchContent") = IF AllChecksPass(l) THEN 1 ELSE 0
            /\ Called(l, "FetchContent")
                  => /\ l.shouldSkip = <<[err |-> FALSE, v |-> FALSE]>>
                     /\ GotVersion(l) /\ GotLicense(l, LicenseTypes) /\ GotFlag(l, TRUE)
                     /\ CalledBefore(l, "GetInfo", "FetchContent")
                     /\ CalledBefore(l, "GetLicense", "FetchContent")
                     /\ CalledBefore(l, "GetXPack", "FetchContent")

\* A cycle whose one read of the stats fails.
C12_Witness ==
    LET l == last["a"]
    IN  /\ AllChecksPass(l) /\ Calls(l, "FetchContent") = 1
        /\ l.content = <<[err |-> TRUE, v |-> 0]>>

\* C13: the timestamp of each MetricSet is the time of its own latest warning
\* (the zero time before its first), and an unavailable cycle warns exactly
\* when the MetricSet has not warned yet or its own latest warning is more
\* than 60 seconds old, whatever the other MetricSet did in between.
C13_InstanceLocal ==
    \A i \in Instances :
        LET l == last[i]
            w == hist[i].warns
        IN  /\ lastCCRLicenseMessageTimestamp[i] =
                  IF w = <<>> THEN ZeroTime ELSE w[Len(w)]
            /\ l.prev = IF WarnsBefore(i) = 0 THEN ZeroTime ELSE w[WarnsBefore(i)]
            /\ Unavailable(l)
                  => (Warned(l) <=>
                         (WarnsBefore(i) = 0 \/ l.at - w[WarnsBefore(i)] > Minute))

\* MetricSet b logs its first warning 60 seconds after the warning of a.
C13_Witness ==
    LET wa == hist["a"].warns
        lb == last["b"]
    IN  /\ Len(wa) = 1 /\ Len(hist["b"].warns) = 1
        /\ Warned(lb) /\ lb.at - wa[1] = Minute

\* C14: an unavailable cycle that runs 60 seconds or less after the latest
\* warning logs nothing, whatever check it failed and whatever check caused
\* that warning; one that runs later logs a warning; and a warning that is
\* logged is the message of its own cycle.
C14_ThrottleIgnoresReason ==
    \A i \in Instances :
        LET l == last[i]
            w == hist[i].warns
        IN  /\ (Unavailable(l) /\ WarnsBefore(i) > 0)
                  => (Warned(l) <=> l.at - w[WarnsBefore(i)] > Minute)
            /\ Warned(l)
                  => /\ Unavailable(l)
                     /\ l.cycle.logged = <<l.cycle.message>>
                     /\ hist[i].warnedBy = Reason(l.cycle)

\* A warning about the license; then, within the minute, a cycle that fails
\* the version check and stays silent.
C14_Witness ==
    LET l == last["a"]
    IN  /\ hist["a"].warnedBy = "GetLicense"
        /\ Reason(l.cycle) = "IsFeatureAvailable"
        /\ WarnsBefore("a") = 1 /\ l.at - hist["a"].warns[1] <= Minute
        /\ ~Warned(l)

\* Everything a cycle may call.
Collaborators ==
    {"ShouldSkipFetch", "GetInfo", "GetLicense", "GetXPack", "IsFeatureAvailable",
     "FetchContent", "eventsMapping", "Warn"}

\* The event mapper rejected the payload of the latest cycle.
MappingFailed(l) ==
    Called(l, "eventsMapping") /\ l.content # <<>> /\ l.content[1].v = InvalidPayload

\* C15: a cycle calls each collaborator at most once, so at most as many
\* calls as there are collaborators; at most one call of a cycle fails, it is
\* the last call of the cycle, and Fetch returns an error exactly when one did.
C15_NoRetry ==
    \A i \in Instances :
        LET l == last[i]
            failures == FailedCalls(l) \cup (IF MappingFailed(l) THEN {"eventsMapping"} ELSE {})
        IN  /\ \A k \in DOMAIN l.cycle.calls : l.cycle.calls[k] \in Collaborators
            /\ \A n \in Collaborators : Calls(l, n) <= 1
            /\ Len(l.cycle.calls) <= Cardinality(Collaborators)
            /\ Cardinality(failures) <= 1
            /\ Failed(l) <=> failures # {}
            /\ \A n \in failures : l.cycle.calls[Len(l.cycle.calls)] = n

\* The longest cycle: all seven calls, the last of which fails.
C15_Witness ==
    LET l == last["a"]
    IN  /\ l.cycle.calls = <<"ShouldSkipFetch", "GetInfo", "GetLicense", "GetXPack",
                             "IsFeatureAvailable", "FetchContent", "eventsMapping">>
        /\ MappingFailed(l) /\ Failed(l)

\* The three messages, told apart by their fixed text.
IsLicenseMessage(message) == Contains(message, "You currently have a ")
IsFeatureMessage(message) ==
    message = <<"the CCR feature is not enabled on your Elasticsearch cluster.">>
IsVersionMessage(message) == Contains(message, " is only supported with Elasticsearch >= ")

\* C16: the license is looked at before the feature flags and these before
\* the version, and the message is that of the first check that fails: a
\* license that is not allowed gives the license message, an allowed license
\* with the flag off gives the feature message, whatever the later checks
\* would find; a cycle that gets the version message has passed the other two.
C16_FirstFailingCheck ==
    \A i \in Instances :
        LET l == last[i]
            m == l.cycle.message
        IN  /\ GotLicense(l, LicenseTypes \ {"trial", "platinum", "enterprise"})
                  => (IsLicenseMessage(m) /\ ~IsFeatureMessage(m) /\ ~IsVersionMessage(m))
            /\ (GotLicense(l, {"trial", "platinum", "enterprise"}) /\ GotFlag(l, FALSE))
                  => (IsFeatureMessage(m) /\ ~IsVersionMessage(m))
            /\ IsVersionMessage(m)
                  => (GotLicense(l, {"trial", "platinum", "enterprise"}) /\ GotFlag(l, TRUE))
            /\ Called(l, "GetXPack") => CalledBefore(l, "GetLicense", "GetXPack")
            /\ Called(l, "IsFeatureAvailable")
                  => CalledBefore(l, "GetXPack", "IsFeatureAvailable")

\* A basic license on a cluster that is too old and has CCR switched off: the
\* operator hears about the license only.
C16_Witness ==
    LET l == last["a"]
    IN  /\ GotLicense(l, {"basic"})
        /\ l.xpackAnswer = <<[err |-> FALSE, v |-> FALSE]>>
        /\ GotVersion(l) /\ LessThan(l.info[1].v, CCRStatsAPIAvailableVersion)
        /\ IsLicenseMessage(l.cycle.message) /\ Reason(l.cycle) = "GetLicense"

\* C17: the first unavailable cycle of a MetricSet finds the zero timestamp,
\* logs the warning and sets the timestamp to the time of the cycle.
C17_FirstUnavailableWarns ==
    \A i \in Instances :
        LET l == last[i]
        IN  l.first
               => /\ l.prev = ZeroTime
                  /\ Warned(l)
                  /\ lastCCRLicenseMessageTimestamp[i] # ZeroTime
                  /\ lastCCRLicenseMessageTimestamp[i] >= l.at
                  /\ hist[i].warns = <<lastCCRLicenseMessageTimestamp[i]>>

\* The first unavailable cycle runs at process start, right after a cycle
\* that was skipped, failed or found CCR available.
C17_Witness ==
    LET l == last["a"]
    IN  l.first /\ l.at = 0 /\ l.after = "other" /\ Warned(l)

\* C18: the latest cycle changed the timestamp exactly when it logged a
\* warning, and assigned it only then.
C18_TimestampChangesIffWarned ==
    \A i \in Instances :
        LET l == last[i]
        IN  /\ lastCCRLicenseMessageTimestamp[i] # l.prev <=> Warned(l)
            /\ l.cycle.writes = IF Warned(l) THEN 1 ELSE 0

\* Within the minute after a warning, an unavailable cycle that follows a
\* cycle of another kind stays silent and leaves the timestamp alone.
C18_Witness ==
    LET l == last["a"]
    IN  /\ Unavailable(l) /\ l.after = "other" /\ ~Warned(l)
        /\ l.prev # ZeroTime /\ lastCCRLicenseMessageTimestamp["a"] = l.prev

\* GetXPack would have failed in the latest cycle, asked or not.
XPackDown(l) == l.xpackAnswer # <<>> /\ l.xpackAnswer[1].err

\* C19: with a license that is not allowed, a cycle in which GetXPack would
\* fail still ends without error, with the license message, and does not call
\* GetXPack; with an allowed license that cycle fails.
C19_LicenseMasksXPackFailure ==
    \A i \in Instances :
        LET l == last[i]
        IN  /\ (GotLicense(l, LicenseTypes \ {"trial", "platinum", "enterprise"})
                  /\ XPackDown(l))
                  => /\ ~Failed(l)
                     /\ IsLicenseMessage(l.cycle.message)
                     /\ ~Called(l, "GetXPack")
            /\ (GotLicense(l, {"trial", "platinum", "enterprise"}) /\ XPackDown(l))
                  => /\ Failed(l)
                     /\ FailedCalls(l) = {"GetXPack"}
                     /\ l.cycle.message = Nil
            /\ "GetXPack" \in FailedCalls(l)
                  => GotLicense(l, {"trial", "platinum", "enterprise"})

\* A gold license while the feature flags cannot be retrieved.
C19_Witness ==
    LET l == last["a"]
    IN  /\ GotLicense(l, {"gold"}) /\ XPackDown(l)
        /\ Unavailable(l) /\ ~Failed(l)

====
